---- MODULE Spec2Model ----
(***************************************************************************)
(* Instrumented bubble sort (modern_bubble_sort.py) and the odd/even       *)
(* predicates (odd_even_checker.py).                                       *)
(*                                                                         *)
(* Lists are objects on a heap and are named by reference, so that a copy  *)
(* (list(data), sorted_data.copy()) and an alias are different things.     *)
(* An element is an object with a key, which is all that < and > look at,  *)
(* and an identity, which tells equal keys apart.                          *)
(*                                                                         *)
(* Spec runs bubble_sort(data), then bubble_sort_generator(data) consumed  *)
(* to exhaustion, then bubble_sort on the first call's sorted_data, each   *)
(* one statement at a time.  SpecParity runs the interactive loop of the   *)
(* odd/even script.                                                        *)
(***************************************************************************)
EXTENDS Integers, Sequences, FiniteSets, TLC

\* Bounds of the model.
MaxLen == 4
MaxKey == 3
MaxAbs == 12

VARIABLES
    heap,      \* the list objects: heap[r] is the contents of the list with reference r
    data,      \* the caller's list (a reference)
    reverse,   \* the reverse flag passed to every call
    bs,        \* bs[c]: the frame of the c-th bubble_sort call
    gen,       \* the frame of the bubble_sort_generator call
    steps,     \* the tuples the generator has yielded, in order
    num,       \* odd/even loop: the integer read
    line,      \* odd/even loop: the statement the loop is at
    out        \* odd/even loop: the values printed for num

vars == <<heap, data, reverse, bs, gen, steps, num, line, out>>
sortVars == <<heap, data, reverse, bs, gen, steps>>
parityVars == <<num, line, out>>

Calls == 1..2

----------------------------------------------------------------------------
\* Python primitives

\* range(k): whether the iterator that has produced `next` values has one more
InRange(next, k) == next < k

\* list(x) / x.copy(): a new list object with the contents of the list r
ListAlias(h, r) == [heap |-> h, ref |-> r]
ListCopy(h, r) == [heap |-> Append(h, h[r]), ref |-> Len(h) + 1]

\* a[j], a[j + 1] = a[j + 1], a[j]   (j is Python's 0-based index)
SwapAt(a, j) == [a EXCEPT ![j + 1] = a[j + 2], ![j + 2] = a[j + 1]]

\* Comparable.__gt__ and Comparable.__lt__: by key alone
Gt(x, y) == x.key > y.key
Lt(x, y) == x.key < y.key

----------------------------------------------------------------------------
\* Frames

Idle ==
    [pc |-> "ready", data |-> 0, S |-> <<>>, sorted_data |-> 0, n |-> 0,
     i |-> 0, j |-> 0, next_i |-> 0, next_j |-> 0,
     comparisons |-> 0, swaps |-> 0, swapped |-> FALSE, should_swap |-> FALSE,
     passes |-> 0, exit |-> "none"]

\* The inputs: every list of at most MaxLen elements with keys in 1..MaxKey
Inputs == UNION {[1..n -> 1..MaxKey] : n \in 0..MaxLen}
MakeList(keys) == [k \in 1..Len(keys) |-> [key |-> keys[k], id |-> k]]

\* The odd/even script is not running
ParityIdle ==
    /\ num = 0
    /\ line = "off"
    /\ out = [classify |-> "none", odd_basic |-> FALSE, even_basic |-> FALSE,
              odd_bitwise |-> FALSE, even_bitwise |-> FALSE, odd_division |-> FALSE]

Init ==
    /\ \E keys \in Inputs : heap = <<MakeList(keys)>>
    /\ data = 1
    /\ reverse \in BOOLEAN
    /\ bs = [c \in Calls |-> Idle]
    /\ gen = Idle
    /\ steps = <<>>
    /\ ParityIdle

----------------------------------------------------------------------------
\* bubble_sort

\* The list the c-th call is given: the caller's data, then the first result
CallArg(c) == IF c = 1 THEN data ELSE bs[1].sorted_data
CallReady(c) == IF c = 1 THEN TRUE ELSE gen.pc = "done"

\* lines 68-71
should_swap_nonstrict(x, y, rev) == IF ~rev THEN x.key >= y.key ELSE x.key <= y.key
should_swap_noreverse(x, y, rev) == Gt(x, y)
should_swap(x, y, rev) == IF ~rev THEN Gt(x, y) ELSE Lt(x, y)

\* line 64: range(n - 1 - i)
InnerLen_full(n, i) == n - 1
InnerLen(n, i) == n - 1 - i

\* lines 51-57
BsCall(c) ==
    /\ bs[c].pc = "ready"
    /\ CallReady(c)
    /\ LET new == ListCopy(heap, CallArg(c)) IN
         /\ heap' = new.heap
         /\ bs' = [bs EXCEPT ![c] = [Idle EXCEPT !.pc = "for_i", !.data = CallArg(c),
                                                  !.S = heap[CallArg(c)],
                                                  !.n = Len(heap[CallArg(c)]),
                                                  !.sorted_data = new.ref]]
    /\ UNCHANGED <<data, reverse, gen, steps, parityVars>>

\* lines 59-61
BsForI(c) ==
    /\ bs[c].pc = "for_i"
    /\ IF InRange(bs[c].next_i, bs[c].n)
         THEN bs' = [bs EXCEPT ![c].i = bs[c].next_i, ![c].next_i = @ + 1,
                               ![c].passes = @ + 1,
                               ![c].swapped = FALSE, ![c].next_j = 0, ![c].pc = "for_j"]
         ELSE bs' = [bs EXCEPT ![c].exit = "exhausted", ![c].pc = "return"]
    /\ UNCHANGED <<heap, data, reverse, gen, steps, parityVars>>

\* line 64
BsForJ(c) ==
    /\ bs[c].pc = "for_j"
    /\ IF InRange(bs[c].next_j, InnerLen(bs[c].n, bs[c].i))
         THEN bs' = [bs EXCEPT ![c].j = bs[c].next_j, ![c].next_j = @ + 1, ![c].pc = "count"]
         ELSE bs' = [bs EXCEPT ![c].pc = "if_not_swapped"]
    /\ UNCHANGED <<heap, data, reverse, gen, steps, parityVars>>

\* line 65
BsCount_none(c) ==
    /\ bs[c].pc = "count"
    /\ bs' = [bs EXCEPT ![c].pc = "compare"]
    /\ UNCHANGED <<heap, data, reverse, gen, steps, parityVars>>
BsCount(c) ==
    /\ bs[c].pc = "count"
    /\ bs' = [bs EXCEPT ![c].comparisons = @ + 1, ![c].pc = "compare"]
    /\ UNCHANGED <<heap, data, reverse, gen, steps, parityVars>>

\* lines 68-73
BsCompare(c) ==
    /\ bs[c].pc = "compare"
    /\ LET a == heap[bs[c].sorted_data]
           s == should_swap(a[bs[c].j + 1], a[bs[c].j + 2], reverse) IN
         bs' = [bs EXCEPT ![c].should_swap = s, ![c].pc = IF s THEN "swap" ELSE "for_j"]
    /\ UNCHANGED <<heap, data, reverse, gen, steps, parityVars>>

\* lines 74-76
BsSwap(c) ==
    /\ bs[c].pc = "swap"
    /\ heap' = [heap EXCEPT ![bs[c].sorted_data] = SwapAt(@, bs[c].j)]
    /\ bs' = [bs EXCEPT ![c].swaps = @ + 1, ![c].swapped = TRUE, ![c].pc = "for_j"]
    /\ UNCHANGED <<data, reverse, gen, steps, parityVars>>

\* lines 79-80
BsPassEnd_never(c) ==
    /\ bs[c].pc = "if_not_swapped"
    /\ bs' = [bs EXCEPT ![c].pc = "for_i"]
    /\ UNCHANGED <<heap, data, reverse, gen, steps, parityVars>>
BsPassEnd(c) ==
    /\ bs[c].pc = "if_not_swapped"
    /\ IF ~bs[c].swapped
         THEN bs' = [bs EXCEPT ![c].exit = "break", ![c].pc = "return"]
         ELSE bs' = [bs EXCEPT ![c].pc = "for_i"]
    /\ UNCHANGED <<heap, data, reverse, gen, steps, parityVars>>

\* lines 82-89: the SortResult is the frame's sorted_data, comparisons and swaps
BsReturn(c) ==
    /\ bs[c].pc = "return"
    /\ bs' = [bs EXCEPT ![c].pc = "done"]
    /\ UNCHANGED <<heap, data, reverse, gen, steps, parityVars>>

----------------------------------------------------------------------------
\* bubble_sort_generator

\* lines 114-117
gen_should_swap_noreverse(x, y, rev) == Gt(x, y)
gen_should_swap_nonstrict(x, y, rev) == IF ~rev THEN x.key >= y.key ELSE x.key <= y.key
gen_should_swap(x, y, rev) == IF ~rev THEN Gt(x, y) ELSE Lt(x, y)

\* line 111: range(n - 1 - i)
GenInnerLen(n, i) == n - 1 - i

\* lines 103-106: the first next() of the consumer starts the body
GenCall ==
    /\ gen.pc = "ready"
    /\ bs[1].pc = "done"
    /\ LET new == ListCopy(heap, data) IN
         /\ heap' = new.heap
         /\ gen' = [Idle EXCEPT !.pc = "for_i", !.data = data, !.S = heap[data],
                                !.n = Len(new.heap[new.ref]), !.sorted_data = new.ref]
    /\ UNCHANGED <<data, reverse, bs, steps, parityVars>>

\* lines 108-109
GenForI ==
    /\ gen.pc = "for_i"
    /\ IF InRange(gen.next_i, gen.n)
         THEN gen' = [gen EXCEPT !.i = gen.next_i, !.next_i = @ + 1, !.passes = @ + 1,
                                 !.swapped = FALSE, !.next_j = 0, !.pc = "for_j"]
         ELSE gen' = [gen EXCEPT !.exit = "exhausted", !.pc = "return"]
    /\ UNCHANGED <<heap, data, reverse, bs, steps, parityVars>>

\* line 111
GenForJ ==
    /\ gen.pc = "for_j"
    /\ IF InRange(gen.next_j, GenInnerLen(gen.n, gen.i))
         THEN gen' = [gen EXCEPT !.j = gen.next_j, !.next_j = @ + 1, !.pc = "count"]
         ELSE gen' = [gen EXCEPT !.pc = "if_not_swapped"]
    /\ UNCHANGED <<heap, data, reverse, bs, steps, parityVars>>

\* line 112
GenCount ==
    /\ gen.pc = "count"
    /\ gen' = [gen EXCEPT !.comparisons = @ + 1, !.pc = "compare"]
    /\ UNCHANGED <<heap, data, reverse, bs, steps, parityVars>>

\* lines 114-119
GenCompare ==
    /\ gen.pc = "compare"
    /\ LET a == heap[gen.sorted_data]
           s == gen_should_swap(a[gen.j + 1], a[gen.j + 2], reverse) IN
         gen' = [gen EXCEPT !.should_swap = s, !.pc = IF s THEN "swap" ELSE "for_j"]
    /\ UNCHANGED <<heap, data, reverse, bs, steps, parityVars>>

\* lines 120-122
GenSwap ==
    /\ gen.pc = "swap"
    /\ heap' = [heap EXCEPT ![gen.sorted_data] = SwapAt(@, gen.j)]
    /\ gen' = [gen EXCEPT !.swaps = @ + 1, !.swapped = TRUE, !.pc = "yield"]
    /\ UNCHANGED <<data, reverse, bs, steps, parityVars>>

\* line 123: the tuple handed to the consumer, whose next() resumes the body
GenYield_skip ==
    /\ gen.pc = "yield"
    /\ gen' = [gen EXCEPT !.pc = "for_j"]
    /\ UNCHANGED <<heap, data, reverse, bs, steps, parityVars>>
GenYield ==
    /\ gen.pc = "yield"
    /\ LET new == ListCopy(heap, gen.sorted_data) IN
         /\ heap' = new.heap
         /\ steps' = Append(steps, [state |-> new.ref, comparisons |-> gen.comparisons,
                                    swaps |-> gen.swaps])
    /\ gen' = [gen EXCEPT !.pc = "for_j"]
    /\ UNCHANGED <<data, reverse, bs, parityVars>>

\* lines 125-126
GenPassEnd ==
    /\ gen.pc = "if_not_swapped"
    /\ IF ~gen.swapped
         THEN gen' = [gen EXCEPT !.exit = "break", !.pc = "return"]
         ELSE gen' = [gen EXCEPT !.pc = "for_i"]
    /\ UNCHANGED <<heap, data, reverse, bs, steps, parityVars>>

\* line 128: StopIteration carrying (sorted_data, comparisons, swaps)
GenReturn ==
    /\ gen.pc = "return"
    /\ gen' = [gen EXCEPT !.pc = "done"]
    /\ UNCHANGED <<heap, data, reverse, bs, steps, parityVars>>

----------------------------------------------------------------------------
\* odd_even_checker.py

\* Python's int & int, on the unbounded two's complement of both operands
RECURSIVE BitAnd(_, _)
BitAnd(a, b) ==
    IF a = 0 \/ b = 0 THEN 0
    ELSE IF a = -1 THEN b
    ELSE IF b = -1 THEN a
    ELSE (a % 2) * (b % 2) + 2 * BitAnd(a \div 2, b \div 2)

\* line 16: n % 2 != 0   (% is the floor remainder, in 0..1)
is_odd_basic(n) == n % 2 # 0

\* line 29: n % 2 == 0
is_even_basic(n) == n % 2 = 0

\* line 43: n & 1 == 1, which Python reads as (n & 1) == 1
is_odd_bitwise(n) == BitAnd(n, 1) = 1

\* line 56: n & 1 == 0
is_even_bitwise_copied(n) == BitAnd(n, 1) = 1
is_even_bitwise(n) == BitAnd(n, 1) = 0

\* line 69: n // 2 * 2 != n   (// is the floor division)
is_odd_division(n) == (n \div 2) * 2 # n

\* lines 82-87
classify_number(n) ==
    IF n = 0 THEN "zero" ELSE IF n % 2 = 0 THEN "even" ELSE "odd"

\* What the user may type at the prompt
UserInputs ==
    {[kind |-> "quit", n |-> 0], [kind |-> "invalid", n |-> 0]}
        \cup {[kind |-> "int", n |-> k] : k \in (-MaxAbs)..MaxAbs}

InitParity ==
    /\ heap = <<>>
    /\ data = 0
    /\ reverse = FALSE
    /\ bs = [c \in Calls |-> Idle]
    /\ gen = Idle
    /\ steps = <<>>
    /\ num = 0
    /\ line = "input"
    /\ out = [classify |-> "none", odd_basic |-> FALSE, even_basic |-> FALSE,
              odd_bitwise |-> FALSE, even_bitwise |-> FALSE, odd_division |-> FALSE]

\* lines 205-209 and 216-218
ReadInput ==
    /\ line = "input"
    /\ \E u \in UserInputs :
         CASE u.kind = "quit" -> line' = "exit" /\ UNCHANGED num
           [] u.kind = "invalid" -> line' = "input" /\ UNCHANGED num
           [] OTHER -> line' = "classify" /\ num' = u.n
    /\ UNCHANGED <<out, sortVars>>

\* line 210
PrintClassify ==
    /\ line = "classify"
    /\ out' = [out EXCEPT !.classify = classify_number(num)]
    /\ line' = "modulo"
    /\ UNCHANGED <<num, sortVars>>

\* line 211
PrintModulo ==
    /\ line = "modulo"
    /\ out' = [out EXCEPT !.odd_basic = is_odd_basic(num), !.even_basic = is_even_basic(num)]
    /\ line' = "bitwise"
    /\ UNCHANGED <<num, sortVars>>

\* line 212
PrintBitwise ==
    /\ line = "bitwise"
    /\ out' = [out EXCEPT !.odd_bitwise = is_odd_bitwise(num),
                          !.even_bitwise = is_even_bitwise(num)]
    /\ line' = "division"
    /\ UNCHANGED <<num, sortVars>>

\* line 213
PrintDivision ==
    /\ line = "division"
    /\ out' = [out EXCEPT !.odd_division = is_odd_division(num)]
    /\ line' = "end"
    /\ UNCHANGED <<num, sortVars>>

\* line 214, and back to the prompt
EndOfBody ==
    /\ line = "end"
    /\ line' = "input"
    /\ UNCHANGED <<num, out, sortVars>>

NextParity ==
    \/ ReadInput
    \/ PrintClassify
    \/ PrintModulo
    \/ PrintBitwise
    \/ PrintDivision
    \/ EndOfBody

SpecParity == InitParity /\ [][NextParity]_vars

----------------------------------------------------------------------------
Next ==
    \/ \E c \in Calls : BsCall(c)
    \/ \E c \in Calls : BsForI(c)
    \/ \E c \in Calls : BsForJ(c)
    \/ \E c \in Calls : BsCount(c)
    \/ \E c \in Calls : BsCompare(c)
    \/ \E c \in Calls : BsSwap(c)
    \/ \E c \in Calls : BsPassEnd(c)
    \/ \E c \in Calls : BsReturn(c)
    \/ GenCall
    \/ GenForI
    \/ GenForJ
    \/ GenCount
    \/ GenCompare
    \/ GenSwap
    \/ GenYield
    \/ GenPassEnd
    \/ GenReturn

Spec == Init /\ [][Next]_vars

----------------------------------------------------------------------------
\* Vocabulary of the properties

Frames == {bs[c] : c \in Calls} \cup {gen}
Started(f) == f.pc # "ready"
Work(f) == heap[f.sorted_data]

\* a is in the requested order
Ordered(a, rev) ==
    \A p \in 1..(Len(a) - 1) :
        IF rev THEN a[p].key >= a[p + 1].key ELSE a[p].key <= a[p + 1].key

Occurrences(a, k) == Cardinality({p \in DOMAIN a : a[p].key = k})
Elements(a) == {a[p] : p \in DOMAIN a}

\* a and b hold the same keys the same number of times, and the same objects
IsPermutation(a, b) ==
    /\ Len(a) = Len(b)
    /\ \A k \in 1..MaxKey : Occurrences(a, k) = Occurrences(b, k)
    /\ Elements(a) = Elements(b)

PosIn(a, e) == CHOOSE p \in DOMAIN a : a[p] = e

\* Where the stable sort of s puts the element e of s
FinalPos(s, e, rev) ==
    1 + Cardinality({q \in DOMAIN s :
            \/ IF rev THEN s[q].key > e.key ELSE s[q].key < e.key
            \/ s[q].key = e.key /\ q < PosIn(s, e)})

\* a and b differ by the exchange of two neighbours
AdjacentExchange(a, b) ==
    /\ Len(a) = Len(b)
    /\ \E p \in 1..(Len(a) - 1) :
         /\ b[p] = a[p + 1] /\ b[p + 1] = a[p] /\ a[p] # a[p + 1]
         /\ \A q \in DOMAIN a : q \notin {p, p + 1} => b[q] = a[q]

\* The passes a frame has completed: the inner loop of the last one has run out
PassesDone(f) ==
    IF f.pc \in {"for_j", "count", "compare", "swap", "yield"} THEN f.passes - 1 ELSE f.passes

Max(x, y) == IF x >= y THEN x ELSE y

----------------------------------------------------------------------------
\* Properties

\* C1: the sorted_data a bubble_sort call returns is a permutation of the
\* sequence it was given and is non-decreasing when reverse is False,
\* non-increasing when reverse is True.
SortedPermutation ==
    \A c \in Calls :
        bs[c].pc = "done" =>
            /\ IsPermutation(Work(bs[c]), bs[c].S)
            /\ Ordered(Work(bs[c]), reverse)

SortedPermutationWitness ==
    /\ bs[1].pc = "done" /\ reverse /\ bs[1].swaps >= 3 /\ bs[1].n >= 3
    /\ \E p \in DOMAIN bs[1].S : Work(bs[1])[p] # bs[1].S[p]

\* C2: the generator consumed to exhaustion ends with the same final sequence,
\* comparison count and swap count as bubble_sort returns for the same input
\* and reverse flag.
GeneratorEquivalent ==
    gen.pc = "done" =>
        /\ Work(gen) = Work(bs[1])
        /\ gen.comparisons = bs[1].comparisons
        /\ gen.swaps = bs[1].swaps

GeneratorEquivalentWitness ==
    /\ gen.pc = "done" /\ gen.swaps >= 2 /\ gen.comparisons > gen.swaps /\ reverse

\* C3: from the call on, through every comparison, swap and yield and at
\* completion, the sequence a call was given has the contents it had at the call.
InputNeverMutated ==
    \A f \in Frames : Started(f) => heap[f.data] = f.S

InputNeverMutatedWitness ==
    /\ gen.pc = "yield" /\ gen.swaps >= 2
    /\ Work(gen) # heap[data]
    /\ bs[1].swaps >= 2

\* C4: comparisons >= swaps >= 0 in every state of both routines, in every
\* yielded step and in the final result.
CountsOrdered ==
    /\ \A f \in Frames : f.comparisons >= f.swaps /\ f.swaps >= 0
    /\ \A k \in DOMAIN steps : steps[k].comparisons >= steps[k].swaps /\ steps[k].swaps >= 0

CountsOrderedWitness ==
    /\ Len(steps) >= 2
    /\ steps[Len(steps)].swaps = steps[Len(steps)].comparisons
    /\ bs[1].pc = "done" /\ bs[1].comparisons > bs[1].swaps /\ bs[1].swaps >= 2

\* C5 as stated: swaps = 0 iff the input is already in the requested order, and
\* for such an input of any length, the empty one included, bubble_sort exits
\* early after the first pass with comparisons = max(n - 1, 0) and returns a
\* sequence equal to the input.
ZeroSwapsEarlyExit ==
    \A c \in Calls :
        bs[c].pc = "done" =>
            /\ (bs[c].swaps = 0) <=> Ordered(bs[c].S, reverse)
            /\ Ordered(bs[c].S, reverse) =>
                 /\ bs[c].exit = "break" /\ bs[c].passes = 1
                 /\ bs[c].comparisons = Max(bs[c].n - 1, 0)
                 /\ Work(bs[c]) = bs[c].S

\* C5 amended: swaps = 0 iff the input is already in the requested order; for
\* such an input of length n, comparisons = max(n - 1, 0) and the result equals
\* the input; when n >= 1 the loop exits early after the first pass, and when
\* n = 0 no pass runs and the outer loop just runs out.
ZeroSwapsOnePass ==
    \A c \in Calls :
        bs[c].pc = "done" =>
            /\ (bs[c].swaps = 0) <=> Ordered(bs[c].S, reverse)
            /\ Ordered(bs[c].S, reverse) =>
                 /\ bs[c].n >= 1 => bs[c].exit = "break" /\ bs[c].passes = 1
                 /\ bs[c].n = 0 => bs[c].exit = "exhausted" /\ bs[c].passes = 0
                 /\ bs[c].comparisons = Max(bs[c].n - 1, 0)
                 /\ Work(bs[c]) = bs[c].S

ZeroSwapsOnePassWitness ==
    /\ bs[1].pc = "done" /\ bs[1].swaps = 0 /\ bs[1].n >= 3
    /\ bs[1].exit = "break" /\ bs[1].comparisons = bs[1].n - 1

\* C6: the generator yields one step right after each swap and none otherwise:
\* the k-th step carries swap count k and a snapshot that is a permutation of
\* the input (the working copy as that swap left it); on full consumption the
\* number of steps is the final swap count, and it is zero iff the input was
\* already in the requested order.
StepPerSwap ==
    /\ Len(steps) = IF gen.pc = "yield" THEN gen.swaps - 1 ELSE gen.swaps
    /\ \A k \in DOMAIN steps :
         /\ steps[k].swaps = k
         /\ IsPermutation(heap[steps[k].state], gen.S)
         /\ AdjacentExchange(IF k = 1 THEN gen.S ELSE heap[steps[k - 1].state],
                             heap[steps[k].state])
    /\ (steps # <<>> /\ gen.pc # "yield") => heap[steps[Len(steps)].state] = Work(gen)
    /\ gen.pc = "done" =>
         /\ Len(steps) = gen.swaps
         /\ (steps = <<>>) <=> Ordered(gen.S, reverse)

StepPerSwapWitness ==
    /\ gen.pc = "done" /\ Len(steps) >= 3 /\ gen.comparisons > gen.swaps

\* C7: a pair of equal elements is never swapped, in either routine and either
\* direction, so elements that compare equal keep the relative order they had
\* in the input.
StableSort ==
    \A f \in Frames :
        Started(f) =>
            /\ f.pc = "swap" => Work(f)[f.j + 1].key # Work(f)[f.j + 2].key
            /\ \A p, q \in DOMAIN Work(f) :
                 (p < q /\ Work(f)[p].key = Work(f)[q].key)
                     => PosIn(f.S, Work(f)[p]) < PosIn(f.S, Work(f)[q])

StableSortWitness ==
    /\ gen.pc = "done" /\ gen.swaps >= 2
    /\ \E p \in 1..(gen.n - 1) : gen.S[p].key = gen.S[p + 1].key
    /\ \E p \in 1..(gen.n - 1) :
         /\ Work(gen)[p].key = Work(gen)[p + 1].key
         /\ PosIn(gen.S, Work(gen)[p]) + 1 < PosIn(gen.S, Work(gen)[p + 1])

\* C8: sorting the result of bubble_sort again with the same flag returns an
\* equal sequence, and the second call reports swaps = 0.
Idempotent ==
    bs[2].pc = "done" =>
        /\ Work(bs[2]) = Work(bs[1])
        /\ bs[2].swaps = 0

IdempotentWitness ==
    /\ bs[2].pc = "done" /\ bs[1].swaps >= 2 /\ bs[2].n >= 3
    /\ \E p \in 1..(bs[2].n - 1) : Work(bs[2])[p].key = Work(bs[2])[p + 1].key

\* C9: for every integer, is_odd_basic, is_odd_bitwise and is_odd_division
\* return the same value, and is_even_basic and is_even_bitwise return its
\* negation.
ParityAgree ==
    line = "end" =>
        /\ out.odd_bitwise = out.odd_basic
        /\ out.odd_division = out.odd_basic
        /\ out.even_basic = ~out.odd_basic
        /\ out.even_bitwise = ~out.odd_basic

ParityAgreeWitness ==
    /\ line = "end" /\ num < -2 /\ out.odd_basic /\ out.odd_bitwise /\ out.odd_division

\* C10: once the pass with index i has completed, the last i + 1 positions of
\* the working copy hold the values of the final output, and no later pass
\* compares or changes them; when the loop exits early, the whole working copy
\* is in the requested order.
PassInvariant ==
    \A f \in Frames :
        Started(f) =>
            /\ \A p \in (f.n - PassesDone(f) + 1)..f.n :
                 FinalPos(f.S, Work(f)[p], reverse) = p
            /\ f.pc = "done" =>
                 \A p \in 1..f.n : FinalPos(f.S, Work(f)[p], reverse) = p
            /\ f.pc \in {"count", "compare", "swap"} => f.j + 2 <= f.n - PassesDone(f)
            /\ f.exit = "break" => Ordered(Work(f), reverse)

PassInvariantWitness ==
    /\ gen.pc = "compare" /\ gen.passes >= 3 /\ gen.swaps >= 2
    /\ bs[1].exit = "break" /\ bs[1].passes >= 3

====
